---- MODULE Spec2Model ----
(***************************************************************************)
(* A model of arch_checkfw.py: the hardware identifier scan                *)
(* (detect_drivers_modaliases), the alias resolution (resolve_modalias),   *)
(* the dependency closure (resolve_module_depends), the firmware query      *)
(* (get_firmware), the batched package search (search_firmware) and the    *)
(* aggregation and report of main.                                         *)
(*                                                                         *)
(* External tools (sysfs, modprobe, modinfo, pacfiles) are the             *)
(* environment: their exit codes and outputs are drawn from small sets.    *)
(* Three specifications share the variables: SpecCollect (the scan),       *)
(* SpecClose / FairClose (the closure) and Spec (main).                    *)
(***************************************************************************)
EXTENDS Integers, Sequences, FiniteSets, TLC

VARIABLES
    pc,               \* position of the running function
    \* detect_drivers_modaliases
    drivers,          \* the set drivers
    modaliases,       \* the set modaliases
    walked,           \* directories os.walk has yielded so far
    lineNo,           \* lines read from the open uevent file
    uevents,          \* history: every line read from a uevent file
    detected,         \* the returned list
    \* resolve_module_depends
    depends,          \* the module database: module -> its direct dependencies
    seed,             \* the argument mods
    about_to_resolve, \* the work-list
    resolved,         \* the set resolved
    queries,          \* history: get_depends calls per name in this run
    result,           \* the returned list
    run,              \* 1: close(seed); 2: close(close(seed))
    first,            \* the list the first run returned
    \* main
    verbose,          \* args.verbose
    aliased,          \* history: what resolve_modalias returned
    mods,             \* what auto_detect_modules returned
    idx,              \* position of the for loop over the modules
    processed,        \* history: the modules get_firmware was called for
    fws,              \* firmware lines of the current module
    rest,             \* what itertools.batched has not yet yielded
    packages,         \* the set packages of the current module
    calls,            \* history: the pacfiles argument lists for this module
    results,          \* history: the set each search_firmware call returned
    last,             \* exit code and output of the tool run that just ended
    fw_module_map,    \* the dict, as the list of its items in insertion order
    out               \* lines printed to stdout

collectVars == <<drivers, modaliases, walked, lineNo, uevents, detected>>
dbVars      == <<depends>>
closeVars   == <<seed, about_to_resolve, resolved, queries, result, run, first>>
mainVars    == <<verbose, aliased, mods, idx, processed, fws, rest, packages,
                 calls, results, last, fw_module_map, out>>
vars        == <<pc, collectVars, dbVars, closeVars, mainVars>>

----------------------------------------------------------------------------
(* Bounds of the model *)

MaxNodes == 2        \* directories under /sys/devices
MaxLines == 2        \* lines of one uevent file
MaxSeed == 2         \* length of the seed of the closure
QueryCap == 2        \* the query counter saturates here ("more than once")
MaxStdoutLines == 2  \* lines a modprobe or pacfiles run prints
MaxHundreds == 2     \* firmware lists of 100, 200, ... lines, up to this many hundreds

(* Program constants *)

BatchSize == 100     \* itertools.batched(fws, 100)

----------------------------------------------------------------------------
(* Strings and their order *)

\* Module names, which also serve as driver names and modalias strings.
Names == {"a", "b", "c", "d"}

Packages == {"linux-firmware", "sof-firmware"}

\* Every non-empty string of the model, in Python's string order.
Universe == <<"a", "b", "c", "d", "linux-firmware", "sof-firmware">>

EmptyStr == ""

\* the value of last while no tool run is pending
NoRun == [rc |-> 0, stdout |-> <<>>]

SeqToSet(s) == {s[i] : i \in DOMAIN s}

BoundedSeq(S, n) == UNION {[1..k -> S] : k \in 0..n}

NoDup(s) == \A i, j \in DOMAIN s : s[i] = s[j] => i = j

\* sorted(S) for a set S of strings
Sorted(S) == SelectSeq(Universe, LAMBDA x : x \in S)

Rank(x) == CHOOSE i \in DOMAIN Universe : Universe[i] = x

Increasing(s) == \A i, j \in DOMAIN s : i < j => Rank(s[i]) < Rank(s[j])

Last(s) == s[Len(s)]

Min(a, b) == IF a < b THEN a ELSE b

----------------------------------------------------------------------------
(* detect_drivers_modaliases *)

\* A line "KEY=VALUE" of a uevent file, right-stripped.
UeventKeys == {"DRIVER", "MODALIAS", "DEVTYPE"}

UeventLines == [key : UeventKeys, value : Names \cup {EmptyStr}]

\* re.match(r"(DRIVER|MODALIAS)=(.+)", line): whether it matches, and
\* match.group(1) and match.group(2) if it does.
MatchLine(line) ==
    [matched |-> line.key \in {"DRIVER", "MODALIAS"} /\ line.value # EmptyStr,
     field |-> line.key,
     value |-> line.value]

\* faulty variant: one sorted list of both sets together
DetectedMixed(ds, ms) == Sorted(ds \cup ms)

\* sorted(drivers) + sorted(modaliases)
Detected(ds, ms) == Sorted(ds) \o Sorted(ms)

InitCollect ==
    /\ pc = "walk"
    /\ drivers = {}
    /\ modaliases = {}
    /\ walked = 0
    /\ lineNo = 0
    /\ uevents = {}
    /\ detected = <<>>

\* os.walk yields a directory without a uevent file: continue
WalkSkip ==
    /\ pc = "walk"
    /\ walked < MaxNodes
    /\ walked' = walked + 1
    /\ UNCHANGED <<pc, drivers, modaliases, lineNo, uevents, detected>>
    /\ UNCHANGED <<dbVars, closeVars, mainVars>>

\* os.walk yields a directory with a uevent file: open it
OpenUevent ==
    /\ pc = "walk"
    /\ walked < MaxNodes
    /\ walked' = walked + 1
    /\ lineNo' = 0
    /\ pc' = "read"
    /\ UNCHANGED <<drivers, modaliases, uevents, detected>>
    /\ UNCHANGED <<dbVars, closeVars, mainVars>>

\* one iteration of "for line in f"
ReadLine ==
    /\ pc = "read"
    /\ lineNo < MaxLines
    /\ \E line \in UeventLines :
         LET match == MatchLine(line) IN
           /\ uevents' = uevents \cup {line}
           /\ drivers' = IF match.matched /\ match.field = "DRIVER"
                         THEN drivers \cup {match.value} ELSE drivers
           /\ modaliases' = IF match.matched /\ match.field = "MODALIAS"
                            THEN modaliases \cup {match.value} ELSE modaliases
    /\ lineNo' = lineNo + 1
    /\ UNCHANGED <<pc, walked, detected>>
    /\ UNCHANGED <<dbVars, closeVars, mainVars>>

\* the uevent file is exhausted
CloseUevent ==
    /\ pc = "read"
    /\ pc' = "walk"
    /\ UNCHANGED <<drivers, modaliases, walked, lineNo, uevents, detected>>
    /\ UNCHANGED <<dbVars, closeVars, mainVars>>

\* os.walk is exhausted: return
ReturnDetected ==
    /\ pc = "walk"
    /\ detected' = Detected(drivers, modaliases)
    /\ pc' = "collected"
    /\ UNCHANGED <<drivers, modaliases, walked, lineNo, uevents>>
    /\ UNCHANGED <<dbVars, closeVars, mainVars>>

NextCollect ==
    \/ WalkSkip
    \/ OpenUevent
    \/ ReadLine
    \/ CloseUevent
    \/ ReturnDetected

----------------------------------------------------------------------------
(* resolve_module_depends *)

NoDepends == [n \in Names |-> {}]

\* a depends on b, b depends on a
Cycle == [n \in Names |-> IF n = "a" THEN {"b"} ELSE IF n = "b" THEN {"a"} ELSE {}]

\* a depends on b and c, which both depend on d
Diamond ==
    [n \in Names |-> IF n = "a" THEN {"b", "c"}
                     ELSE IF n \in {"b", "c"} THEN {"d"} ELSE {}]

\* the module databases of the closure's runs: every dependency relation
\* among a, b and c (d stands alone), and the diamond
AllDepends ==
    {[n \in Names |-> IF n = "d" THEN {} ELSE f[n]] :
        f \in [Names \ {"d"} -> SUBSET (Names \ {"d"})]} \cup {Diamond}

\* the module databases of main's runs
SomeDepends == {Cycle, Diamond}

\* the modules hardware binds to; c and d are only ever dependencies
HardwareModules == {"a", "b"}

\* Exit codes a tool run can end with (negative: killed by a signal).
ExitCodes == {0, 1, 2, -9}

\* faulty variant: only the first dependency is kept
GetDependsFirst(mod) ==
    IF depends[mod] = {} THEN <<EmptyStr>> ELSE <<Head(Sorted(depends[mod]))>>

\* modinfo -F depends prints the dependencies joined by commas;
\* stdout.strip().split(","): an empty output splits into one empty string.
GetDepends(mod) ==
    IF depends[mod] = {} THEN <<EmptyStr>> ELSE Sorted(depends[mod])

\* faulty variant: the last element is read but not removed
PopKeep(work) == work

\* what about_to_resolve.pop() leaves: the list without its last element
Pop(work) == SubSeq(work, 1, Len(work) - 1)

\* faulty variant: the guard is missing
NeverResolved(mod, res) == FALSE

\* "if mod in resolved"
IsResolved(mod, res) == mod \in res

\* faulty variant: the dependencies are recorded instead of the module
AddDepends(mod, res) == res \cup (SeqToSet(GetDepends(mod)) \ {EmptyStr})

\* resolved.add(mod)
AddResolved(mod, res) == res \cup {mod}

\* the modules one iteration of the while loop queries: one or none
Queried(work, res) ==
    LET mod == Last(work) IN
      IF mod = EmptyStr \/ IsResolved(mod, res) THEN {} ELSE {mod}

\* one iteration of the while loop whose get_depends call (if any) succeeds
LoopBody(work, res) ==
    LET mod == Last(work) IN
      IF mod = EmptyStr THEN
        [about_to_resolve |-> Pop(work), resolved |-> res]
      ELSE IF IsResolved(mod, res) THEN
        [about_to_resolve |-> Pop(work), resolved |-> res]
      ELSE
        [about_to_resolve |-> Pop(work) \o GetDepends(mod),
         resolved |-> AddResolved(mod, res)]

RECURSIVE WhileLoop(_, _)
\* the while loop run to its end, every query succeeding
WhileLoop(work, res) ==
    IF work = <<>> THEN res
    ELSE LET st == LoopBody(work, res) IN
           WhileLoop(st.about_to_resolve, st.resolved)

\* resolve_module_depends(mods), every query succeeding
ResolveModuleDepends(ms) == Sorted(WhileLoop(ms, {}))

NoQueries == [n \in Names \cup {EmptyStr} |-> 0]

InitClose ==
    /\ pc = "loop"
    /\ seed \in BoundedSeq(Names \cup {EmptyStr}, MaxSeed)
    /\ about_to_resolve = seed
    /\ resolved = {}
    /\ queries = NoQueries
    /\ result = <<>>
    /\ run = 1
    /\ first = <<>>

\* one iteration of "while about_to_resolve"; modinfo exits with 0
LoopIteration ==
    /\ pc = "loop"
    /\ about_to_resolve # <<>>
    /\ LET st == LoopBody(about_to_resolve, resolved)
           q == Queried(about_to_resolve, resolved) IN
         /\ about_to_resolve' = st.about_to_resolve
         /\ resolved' = st.resolved
         /\ queries' = [n \in DOMAIN queries |->
                          IF n \in q THEN Min(queries[n] + 1, QueryCap)
                          ELSE queries[n]]
    /\ UNCHANGED <<pc, seed, result, run, first>>
    /\ UNCHANGED <<dbVars, collectVars, mainVars>>

\* the iteration's modinfo run exits with another code: check=True raises
GetDependsRaises ==
    /\ pc = "loop"
    /\ about_to_resolve # <<>>
    /\ Queried(about_to_resolve, resolved) # {}
    /\ \E rc \in ExitCodes \ {0} :
         /\ queries' = [n \in DOMAIN queries |->
                          IF n \in Queried(about_to_resolve, resolved)
                          THEN Min(queries[n] + 1, QueryCap)
                          ELSE queries[n]]
         /\ about_to_resolve' = Pop(about_to_resolve)
    /\ pc' = "raised"
    /\ UNCHANGED <<seed, resolved, result, run, first>>
    /\ UNCHANGED <<dbVars, collectVars, mainVars>>

\* the work-list is empty: return sorted(resolved)
ReturnResolved ==
    /\ pc = "loop"
    /\ about_to_resolve = <<>>
    /\ result' = Sorted(resolved)
    /\ pc' = "returned"
    /\ UNCHANGED <<seed, about_to_resolve, resolved, queries, run, first>>
    /\ UNCHANGED <<dbVars, collectVars, mainVars>>

\* the function is applied again, to the list it returned
Reclose ==
    /\ pc = "returned"
    /\ run = 1
    /\ run' = 2
    /\ first' = result
    /\ about_to_resolve' = result
    /\ resolved' = {}
    /\ queries' = NoQueries
    /\ result' = <<>>
    /\ pc' = "loop"
    /\ UNCHANGED seed
    /\ UNCHANGED <<dbVars, collectVars, mainVars>>

NextClose ==
    \/ LoopIteration
    \/ GetDependsRaises
    \/ ReturnResolved
    \/ Reclose

----------------------------------------------------------------------------
(* main and the functions it calls *)

\* what a call comes to: it raises CalledProcessError, or returns a value
Raises == [raised |-> TRUE, value |-> <<>>]

Returns(v) == [raised |-> FALSE, value |-> v]

\* faulty variant: the lines as printed, neither deduplicated nor sorted
ResolveModaliasRaw(stdout) == stdout

\* resolve_modalias: sorted(set(result.stdout.splitlines())); check=False
ResolveModalias(stdout) == Sorted(SeqToSet(stdout))

\* auto_detect_modules(resolve_deps), given what modprobe prints
AutoDetectModules(resolve_deps, stdout) ==
    IF resolve_deps
    THEN ResolveModuleDepends(ResolveModalias(stdout))
    ELSE ResolveModalias(stdout)

\* variant: main asks for the dependency closure
MainResolvesDeps == TRUE

\* the argument main passes to auto_detect_modules
MainResolveDeps == FALSE

\* the firmware lines modinfo prints for module m, n of them
FirmwareLines(m, n) == [i \in 1..n |-> <<m, i>>]

\* how many firmware lines a module may declare
FwCounts == {0, 1, 101, 250} \cup {k * 100 : k \in 1..MaxHundreds}

\* faulty variant: check=False, the exit code is ignored
GetFirmwareUnchecked(rc, lines) == Returns(lines)

\* get_firmware: check=True raises on a non-zero exit code
GetFirmware(rc, lines) == IF rc # 0 THEN Raises ELSE Returns(lines)

\* f"usr/lib/firmware/{fw}*"
Glob(fw) == <<"usr/lib/firmware/", fw, "*">>

\* faulty variant: check=True, exit code 1 raises too
SearchFirmwareChecked(rc, stdout) ==
    IF rc # 0 THEN Raises ELSE Returns(SeqToSet(stdout))

\* search_firmware, given what pacfiles exits with and prints:
\* check_returncode() raises on a non-zero exit code
SearchFirmware(rc, stdout) ==
    IF rc \notin {0, 1} /\ rc # 0 THEN Raises ELSE Returns(SeqToSet(stdout))

\* faulty variant: batches of 99
NextBatchShort(s) == SubSeq(s, 1, Min(BatchSize - 1, Len(s)))

\* the batch itertools.batched(fws, 100) yields next
NextBatch(s) == SubSeq(s, 1, Min(BatchSize, Len(s)))

\* fw_module_map.setdefault(package, []).append(m)
SetDefaultAppend(map, package, m) ==
    IF \E i \in DOMAIN map : map[i].package = package
    THEN [i \in DOMAIN map |->
            IF map[i].package = package
            THEN [map[i] EXCEPT !.mods = Append(@, m)]
            ELSE map[i]]
    ELSE Append(map, [package |-> package, mods |-> <<m>>])

RECURSIVE AppendModule(_, _, _)
\* the loop "for package in sorted(packages)" over the list ps
AppendModule(map, ps, m) ==
    IF ps = <<>> THEN map
    ELSE AppendModule(SetDefaultAppend(map, Head(ps), m), Tail(ps), m)

\* print(f"{package} is required by {', '.join(mods)}") for every item
ReportLines(map) ==
    [i \in DOMAIN map |-> <<"is required by", map[i].package, map[i].mods>>]

InitMain ==
    /\ pc = "check_db"
    /\ verbose \in {0, 1, 2}
    /\ aliased = <<>>
    /\ mods = <<>>
    /\ idx = 1
    /\ processed = <<>>
    /\ fws = <<>>
    /\ rest = <<>>
    /\ packages = {}
    /\ calls = <<>>
    /\ results = <<>>
    /\ last = NoRun
    /\ fw_module_map = <<>>
    /\ out = <<>>

\* check_pacfiles_db: sys.exit(1) unless both databases exist
CheckPacfilesDb ==
    /\ pc = "check_db"
    /\ \E present \in BOOLEAN :
         pc' = IF present THEN "detect" ELSE "exit"
    /\ UNCHANGED mainVars
    /\ UNCHANGED <<dbVars, collectVars, closeVars>>

\* auto_detect_modules(False)
AutoDetect ==
    /\ pc = "detect"
    /\ \E stdout \in BoundedSeq(HardwareModules, MaxStdoutLines) :
         /\ aliased' = ResolveModalias(stdout)
         /\ mods' = AutoDetectModules(MainResolveDeps, stdout)
    /\ idx' = 1
    /\ pc' = "loop"
    /\ UNCHANGED <<verbose, processed, fws, rest, packages, calls, results,
                   last, fw_module_map, out>>
    /\ UNCHANGED <<dbVars, collectVars, closeVars>>

\* the for loop takes its next module m and get_firmware runs modinfo
RunModinfo ==
    /\ pc = "loop"
    /\ idx <= Len(mods)
    /\ out' = IF verbose >= 1 THEN Append(out, <<"---", mods[idx]>>) ELSE out
    /\ processed' = Append(processed, mods[idx])
    /\ \E rc \in ExitCodes, n \in FwCounts :
         last' = [rc |-> rc, stdout |-> FirmwareLines(mods[idx], n)]
    /\ calls' = <<>>
    /\ results' = <<>>
    /\ pc' = "modinfo"
    /\ UNCHANGED <<verbose, aliased, mods, idx, fws, rest, packages,
                   fw_module_map>>
    /\ UNCHANGED <<dbVars, collectVars, closeVars>>

\* get_firmware returns or raises; the batched loop starts
GetFirmwareReturns ==
    /\ pc = "modinfo"
    /\ LET got == GetFirmware(last.rc, last.stdout) IN
         IF got.raised
         THEN /\ pc' = "aborted"
              /\ UNCHANGED <<fws, rest, packages, out>>
         ELSE /\ fws' = got.value
              /\ out' = IF verbose >= 2
                        THEN out \o [i \in DOMAIN got.value |-> <<"fw", got.value[i]>>]
                        ELSE out
              /\ packages' = {}
              /\ rest' = got.value
              /\ pc' = "batch"
    /\ last' = NoRun
    /\ UNCHANGED <<verbose, aliased, mods, idx, processed, calls, results,
                   fw_module_map>>
    /\ UNCHANGED <<dbVars, collectVars, closeVars>>

\* itertools.batched yields a batch and search_firmware runs pacfiles on it
RunPacfiles ==
    /\ pc = "batch"
    /\ rest # <<>>
    /\ LET batch_fws == NextBatch(rest) IN
         /\ calls' = Append(calls, [i \in DOMAIN batch_fws |-> Glob(batch_fws[i])])
         /\ rest' = SubSeq(rest, Len(batch_fws) + 1, Len(rest))
    /\ \E rc \in ExitCodes, stdout \in BoundedSeq(Packages, MaxStdoutLines) :
         last' = [rc |-> rc, stdout |-> stdout]
    /\ pc' = "pacfiles"
    /\ UNCHANGED <<verbose, aliased, mods, idx, processed, fws, packages,
                   results, fw_module_map, out>>
    /\ UNCHANGED <<dbVars, collectVars, closeVars>>

\* search_firmware returns or raises; packages |= ...
SearchFirmwareReturns ==
    /\ pc = "pacfiles"
    /\ LET got == SearchFirmware(last.rc, last.stdout) IN
         IF got.raised
         THEN /\ pc' = "aborted"
              /\ UNCHANGED <<packages, results>>
         ELSE /\ packages' = packages \cup got.value
              /\ results' = Append(results, got.value)
              /\ pc' = "batch"
    /\ last' = NoRun
    /\ UNCHANGED <<verbose, aliased, mods, idx, processed, fws, rest, calls,
                   fw_module_map, out>>
    /\ UNCHANGED <<dbVars, collectVars, closeVars>>

\* the batches are exhausted: the loop over sorted(packages)
Aggregate ==
    /\ pc = "batch"
    /\ rest = <<>>
    /\ LET ps == Sorted(packages) IN
         /\ out' = IF verbose >= 1
                   THEN out \o [i \in DOMAIN ps |-> <<"requires package:", ps[i]>>]
                   ELSE out
         /\ fw_module_map' = AppendModule(fw_module_map, ps, mods[idx])
    /\ idx' = idx + 1
    /\ pc' = "loop"
    /\ UNCHANGED <<verbose, aliased, mods, processed, fws, rest, packages,
                   calls, results, last>>
    /\ UNCHANGED <<dbVars, collectVars, closeVars>>

\* the modules are exhausted: the final report
Report ==
    /\ pc = "loop"
    /\ idx > Len(mods)
    /\ out' = (IF verbose >= 1 THEN Append(out, <<"">>) ELSE out)
                 \o ReportLines(fw_module_map)
    /\ pc' = "done"
    /\ UNCHANGED <<verbose, aliased, mods, idx, processed, fws, rest,
                   packages, calls, results, last, fw_module_map>>
    /\ UNCHANGED <<dbVars, collectVars, closeVars>>

NextMain ==
    \/ CheckPacfilesDb
    \/ AutoDetect
    \/ RunModinfo
    \/ GetFirmwareReturns
    \/ RunPacfiles
    \/ SearchFirmwareReturns
    \/ Aggregate
    \/ Report

----------------------------------------------------------------------------
(* Values of the variables a specification does not use *)

IdleCollect ==
    /\ drivers = {}
    /\ modaliases = {}
    /\ walked = 0
    /\ lineNo = 0
    /\ uevents = {}
    /\ detected = <<>>

IdleClose ==
    /\ seed = <<>>
    /\ about_to_resolve = <<>>
    /\ resolved = {}
    /\ queries = NoQueries
    /\ result = <<>>
    /\ run = 1
    /\ first = <<>>

IdleMain ==
    /\ verbose = 0
    /\ aliased = <<>>
    /\ mods = <<>>
    /\ idx = 1
    /\ processed = <<>>
    /\ fws = <<>>
    /\ rest = <<>>
    /\ packages = {}
    /\ calls = <<>>
    /\ results = <<>>
    /\ last = NoRun
    /\ fw_module_map = <<>>
    /\ out = <<>>

InitCollectSpec ==
    /\ InitCollect
    /\ depends = NoDepends
    /\ IdleClose
    /\ IdleMain

InitCloseSpec ==
    /\ InitClose
    /\ depends \in AllDepends
    /\ IdleCollect
    /\ IdleMain

Init ==
    /\ InitMain
    /\ depends \in SomeDepends
    /\ IdleCollect
    /\ IdleClose

SpecCollect == InitCollectSpec /\ [][NextCollect]_vars

SpecClose == InitCloseSpec /\ [][NextClose]_vars

\* the loop is sequential code: a step that can be taken is taken
FairClose == SpecClose /\ WF_vars(NextClose)

Spec == Init /\ [][NextMain]_vars


----------------------------------------------------------------------------
(* Properties *)

RECURSIVE ReachableFrom(_)
\* the modules reachable from the set S through zero or more dependency edges
ReachableFrom(S) ==
    LET T == S \cup UNION {depends[m] : m \in S} IN
      IF T = S THEN S ELSE ReachableFrom(T)

RECURSIVE Flatten(_)
\* the concatenation of the lists of ss
Flatten(ss) == IF ss = <<>> THEN <<>> ELSE Head(ss) \o Flatten(Tail(ss))

Globs(lines) == [i \in DOMAIN lines |-> Glob(lines[i])]

ReportedLines == {k \in DOMAIN out : out[k][1] = "is required by"}

\* C1: resolve_module_depends returns exactly the non-empty names reachable
\* from the seed through zero or more dependency edges; the empty string is
\* never queried and never part of the result.
C1_ClosureIsReachableSet ==
    /\ queries[EmptyStr] = 0
    /\ EmptyStr \notin resolved
    /\ (pc = "returned" /\ run = 1) =>
          /\ SeqToSet(result) = ReachableFrom(SeqToSet(seed) \ {EmptyStr})
          /\ EmptyStr \notin SeqToSet(result)

\* a seed holding the empty string, and a result reaching beyond the seed
C1_Witness ==
    /\ pc = "returned" /\ run = 1
    /\ depends = Diamond
    /\ seed = <<EmptyStr, "b">>
    /\ result = <<"b", "d">>

\* C2: with every query succeeding the while loop empties the work-list and
\* returns, in the first run and in the second, whatever the dependency
\* relation (cycles and diamonds included); for the cycle a <-> b it
\* returns a and b.
C2_LoopTerminates ==
    /\ <>(pc = "raised" \/ (pc = "returned" /\ run = 2))
    /\ [](/\ depends = Cycle
          /\ pc = "returned"
          /\ run = 1
          /\ seed \in {<<"a">>, <<"b">>, <<"a", "b">>, <<"b", "a">>}
          => result = <<"a", "b">>)

\* the run on the cycle, seeded with one of its two modules, has returned
C2_Witness ==
    /\ depends = Cycle
    /\ seed = <<"a">>
    /\ pc = "returned" /\ run = 1
    /\ result = <<"a", "b">>

\* C3: within one run get_depends is called at most once per name.
C3_AtMostOneQuery == \A n \in DOMAIN queries : queries[n] <= 1

\* a repeated seed on the cycle: both modules queried, each once
C3_Witness ==
    /\ depends = Cycle
    /\ seed = <<"a", "a">>
    /\ pc = "returned" /\ run = 1
    /\ queries["a"] = 1 /\ queries["b"] = 1

\* C4: applied to the list it returned, resolve_module_depends returns the
\* same list.
C4_Idempotent == (pc = "returned" /\ run = 2) => result = first

\* the second run has returned, on a first result larger than the seed
C4_Witness ==
    /\ pc = "returned" /\ run = 2
    /\ depends = Diamond
    /\ seed = <<"a">>
    /\ first = <<"a", "b", "c", "d">>

\* C5: the N firmware lines of a module go to pacfiles in ceil(N/100) calls
\* of at most 100 patterns each, which together hold every pattern once and
\* in order (250: 100, 100, 50; 0: no call, the empty set); the package set
\* is the union of what the calls returned.
C5_Batches ==
    pc = "batch" =>
      /\ Flatten(calls) \o Globs(rest) = Globs(fws)
      /\ \A k \in DOMAIN calls : Len(calls[k]) >= 1 /\ Len(calls[k]) <= 100
      /\ Len(results) = Len(calls)
      /\ packages = UNION SeqToSet(results)
      /\ rest = <<>> =>
           /\ Len(calls) = (Len(fws) + 99) \div 100
           /\ Len(fws) = 250 =>
                [k \in DOMAIN calls |-> Len(calls[k])] = <<100, 100, 50>>
           /\ Len(fws) = 0 => calls = <<>> /\ packages = {}

\* 250 patterns searched in three calls whose results differ
C5_Witness ==
    /\ pc = "batch"
    /\ rest = <<>>
    /\ Len(fws) = 250
    /\ Len(calls) = 3
    /\ results = <<{"linux-firmware"}, {}, {"sof-firmware"}>>
    /\ packages = Packages

\* C6: search_firmware returns a set exactly when pacfiles exits with 0 or 1,
\* the set of the lines it printed (exit code 1 and no output: the empty
\* set); with any other exit code it raises and returns nothing.
C6_SearchFirmwareExitCodes ==
    [][pc = "pacfiles" =>
         /\ (pc' = "batch") <=> (last.rc \in {0, 1})
         /\ (pc' = "aborted") <=> (last.rc \notin {0, 1})
         /\ (pc' = "batch") =>
               /\ results' = Append(results, SeqToSet(last.stdout))
               /\ (last.rc = 1 /\ last.stdout = <<>>) => Last(results') = {}
         /\ (pc' = "aborted") => (results' = results /\ packages' = packages)
    ]_vars

\* after a search that found a package, pacfiles exits with 1 and prints nothing
C6_Witness ==
    /\ pc = "pacfiles"
    /\ last.rc = 1
    /\ last.stdout = <<>>
    /\ results = <<{"linux-firmware"}>>

C8_ModuleOncePerPackage ==
    /\ \A i \in DOMAIN fw_module_map : NoDup(fw_module_map[i].mods)
    /\ \A i, j \in DOMAIN fw_module_map :
          fw_module_map[i].package = fw_module_map[j].package => i = j
    /\ \A k \in ReportedLines : NoDup(out[k][3])

\* two batches of one module both found the package, and the report names
\* the module for it
C8_Witness ==
    /\ pc = "done"
    /\ mods = <<"a">>
    /\ Len(results) = 2
    /\ "linux-firmware" \in results[1] \cap results[2]
    /\ \E k \in ReportedLines :
          out[k] = <<"is required by", "linux-firmware", <<"a">>>>

\* C9: a failing firmware query (exit code not 0) or file search (exit code
\* not 0 or 1) aborts the run at once; an aborted run takes no further step
\* and has printed no report line.
C9_AbortsWithoutReport ==
    /\ [](pc = "aborted" => ReportedLines = {})
    /\ [][(\/ pc = "modinfo" /\ last.rc # 0
           \/ pc = "pacfiles" /\ last.rc \notin {0, 1}) => pc' = "aborted"]_vars
    /\ [][pc = "aborted" =>
            (pc' = "aborted" /\ out' = out /\ processed' = processed)]_vars

\* the run aborted in its second module, with packages of the first
\* already in the dict
C9_Witness ==
    /\ pc = "aborted"
    /\ processed = <<"a", "b">>
    /\ fw_module_map # <<>>

\* the DRIVER and the MODALIAS values read from the uevent files
DriverValues ==
    {l.value : l \in {u \in uevents : u.key = "DRIVER" /\ u.value # EmptyStr}}

ModaliasValues ==
    {l.value : l \in {u \in uevents : u.key = "MODALIAS" /\ u.value # EmptyStr}}

\* C10 as stated: the returned list has no duplicate, and is the sorted
\* drivers followed by the sorted aliases.
C10_NoDuplicates ==
    pc = "collected" =>
      /\ NoDup(detected)
      /\ \E k \in 0..Len(detected) :
            /\ Increasing(SubSeq(detected, 1, k))
            /\ Increasing(SubSeq(detected, k + 1, Len(detected)))
            /\ SeqToSet(SubSeq(detected, 1, k)) = DriverValues
            /\ SeqToSet(SubSeq(detected, k + 1, Len(detected))) = ModaliasValues

\* C10 as amended: the returned list is the drivers, sorted and without
\* duplicates, followed by the aliases, sorted and without duplicates; it has
\* a duplicate exactly when a value is both a driver and an alias.
C10_DriversThenAliases ==
    pc = "collected" =>
      LET k == Cardinality(DriverValues) IN
        /\ Len(detected) = k + Cardinality(ModaliasValues)
        /\ Increasing(SubSeq(detected, 1, k))
        /\ Increasing(SubSeq(detected, k + 1, Len(detected)))
        /\ SeqToSet(SubSeq(detected, 1, k)) = DriverValues
        /\ SeqToSet(SubSeq(detected, k + 1, Len(detected))) = ModaliasValues
        /\ NoDup(detected) <=> (DriverValues \cap ModaliasValues = {})

\* a value read both as a driver and as an alias is returned twice
C10_Witness ==
    /\ pc = "collected"
    /\ detected = <<"a", "b", "a">>

====
